---- MODULE Spec2Model ----
(***************************************************************************)
(* State-machine model of the Creatio MCP connector:                       *)
(*   - CreatioClient (server/creatio-client.ts): session, authenticate,    *)
(*     ensureAuthenticated, the module-level currentClient pointer;        *)
(*   - the two tool dispatchers (the SSE CallTool handler of               *)
(*     server/mcp-sse-server.ts and MCPServer.executeTool) and the REST    *)
(*     routes of server/routes.ts;                                         *)
(*   - the session-routed transport (GET /mcp/sse, POST /mcp/messages).    *)
(* A handler is one action up to its first await of network I/O (a fetch,  *)
(* server.connect) and one action per resumption.  An await of a promise   *)
(* chain that settles without I/O resumes in the same turn of the event    *)
(* loop, before any other request or response is handled, and is not a     *)
(* step of its own.                                                        *)
(***************************************************************************)
EXTENDS Integers, Sequences, FiniteSets, TLC

\* ------------------------------------------------------------------ bounds
MaxClients == 2     \* CreatioClient objects constructed in one run
MaxTasks   == 2     \* requests handled (REST requests, tool calls, posted messages) in one run
MaxTicks   == 2     \* clock advances in one run
MaxConns   == 2     \* GET /mcp/sse connections accepted in one run

\* the clock advances in steps of half an hour, the lifetime of a session
TickMs == 30 * 60 * 1000

\* ------------------------------------------------------- program constants
sessionTimeout == 30 * 60 * 1000

TestTool  == "test_creatio_connection"
DataTools == {"query_creatio_accounts", "get_creatio_account",
              "create_creatio_account", "update_creatio_account",
              "delete_creatio_account"}
ToolNames == {TestTool} \cup DataTools
\* a name outside the catalogue, as a caller may send it
BogusTool == "no_such_tool"

\* ---- the tool catalogues: a tool is its name and its parameters, a
\* parameter its name, its type and whether it is required
Param(name, type, required) == [name |-> name, type |-> type, required |-> required]
Tool(name, parameters) == [name |-> name, parameters |-> parameters]

ConnectionParams ==
  {Param(n, "string", TRUE) : n \in {"baseUrl", "username", "password"}}
QueryParams ==
  {Param(n, "string", FALSE) : n \in {"filter", "select", "orderby"}}
    \cup {Param("top", "number", FALSE)}
IdParam == Param("id", "string", TRUE)
FieldParams ==
  {Param(n, "string", FALSE) : n \in {"phone", "email", "web", "address", "city"}}

\* the six tools of the inputSchema catalogues (properties and required)
SchemaTools ==
  {Tool("test_creatio_connection", ConnectionParams),
   Tool("query_creatio_accounts", QueryParams),
   Tool("get_creatio_account", {IdParam}),
   Tool("create_creatio_account", {Param("name", "string", TRUE)} \cup FieldParams),
   Tool("update_creatio_account",
        {IdParam, Param("name", "string", FALSE)} \cup FieldParams),
   Tool("delete_creatio_account", {IdParam})}

\* the tools the SSE ListTools handler returns
ListTools == SchemaTools
\* the registry GET /api/mcp/tools returns
MCP_TOOLS == SchemaTools
\* the tools the MCPToolsPanel component shows
mcpTools ==
  {Tool("query_creatio_accounts", QueryParams),
   Tool("get_creatio_account", {IdParam}),
   Tool("test_creatio_connection", ConnectionParams)}

\* the names a catalogue lists
NamesOf(catalogue) == {tool.name : tool \in catalogue}

Configs == {"valid", "invalid"}
\* the calls a caller may make: a tool name and, for the connection test, a config
ToolCalls == {<<TestTool, cfg>> : cfg \in Configs}
               \cup {<<tool, "none">> : tool \in DataTools \cup {BogusTool}}
\* the same calls as the SSE handler may receive them: the arguments of a
\* tools/call message are optional, those of POST /api/mcp/execute default to {}
SseCalls == ToolCalls \cup {<<tool, "undefined">> : tool \in DataTools}
LoginOutcomes == {"ok", "httpFail", "rejected"}

\* ------------------------------------------------------ upstream responses
\* A response to a data request, as far as the client reads it:
\*   status  the HTTP status (response.ok is 200 <= status <= 299)
\*   html    the content-type header includes "text/html"
\*   body    the kind of text in the body:
\*             "list"         a JSON object whose value is an array
\*             "noValue"      a JSON object without a value field
\*             "nullValue"    a JSON object whose value is null
\*             "textValue"    a JSON object whose value is a non-empty string
\*             "null"         the JSON literal null
\*             "garbage"      text that is not JSON
\*             "htmlTitled"   an HTML page with a <title>
\*             "htmlUntitled" an HTML page without one
\*             "text"         any text, for the operations that only copy it
NoResp == [status |-> 0, html |-> FALSE, body |-> "none"]

QueryBodies == {"list", "noValue", "nullValue", "textValue", "null", "garbage",
                "htmlTitled", "htmlUntitled"}
QueryResponses  == [status : {200, 403}, html : BOOLEAN, body : QueryBodies]
GetResponses    == [status : {200, 404, 500}, html : {FALSE}, body : {"text"}]
WriteResponses  == [status : {201, 400}, html : {FALSE}, body : {"text"}]
DeleteResponses == [status : {200, 204, 404, 500}, html : {FALSE}, body : {"text"}]

ResponsesOf(tool) ==
  CASE tool = "query_creatio_accounts"  -> QueryResponses
    [] tool = "get_creatio_account"     -> GetResponses
    [] tool = "delete_creatio_account"  -> DeleteResponses
    [] OTHER                            -> WriteResponses

\* response.ok
ResponseOk(resp) == resp.status >= 200 /\ resp.status <= 299

\* JSON.parse(body) returns
IsJson(body) == body \in {"list", "noValue", "nullValue", "textValue", "null"}

\* data.value || [] of the object parsed from the body
ValueOrEmpty(body) ==
  CASE body = "list"      -> "list"
    [] body = "textValue" -> "text"
    [] OTHER              -> "empty"

\* body.match(/<title>([^<]+)<\/title>/i): the title, or the default given
TitleOf(body, default) == IF body = "htmlTitled" THEN "title" ELSE default

\* ------------------------------------------------------------ error values
\* An Error thrown by the client or by a handler, by the parts of its message:
\*   kind    which throw statement (or runtime error) it comes from
\*   op      the operation named in the message
\*   status  the HTTP status quoted in the message (0: none)
\*   detail  the body, title or upstream message quoted in the message
NoFailure == [kind |-> "none", op |-> "none", status |-> 0, detail |-> "none"]
Failure(kind, op, status, detail) ==
  [kind |-> kind, op |-> op, status |-> status, detail |-> detail]

\* what a client operation returns or throws:
\*   failure  the Error thrown (NoFailure: it returned)
\*   value    the value returned: "list", "empty" (the list []), "text" (a
\*            string), "null", "record", "void"; "none" when it threw
\*   parsed   JSON.parse ran on the body
Thrown(f, parsed) == [failure |-> f, value |-> "none", parsed |-> parsed]
Returned(v, parsed) == [failure |-> NoFailure, value |-> v, parsed |-> parsed]

\* the text block of a tool result, by its parts
NoText == [form |-> "none", name |-> "none", message |-> NoFailure]
\* ErrorText with "Unknown error" in place of the message
ErrorTextNoMessage(name, f) ==
  [form |-> "Error executing", name |-> name, message |-> NoFailure]
ErrorText(name, f) == [form |-> "Error executing", name |-> name, message |-> f]
\* UnknownToolText without the name
UnknownToolTextNoName(name) ==
  [form |-> "Unknown tool", name |-> "none", message |-> NoFailure]
UnknownToolText(name) == [form |-> "Unknown tool", name |-> name, message |-> NoFailure]
NotConnectedText ==
  [form |-> "Not connected. Use test_creatio_connection first.", name |-> "none",
   message |-> NoFailure]
AccountNotFoundText == [form |-> "Account not found", name |-> "none", message |-> NoFailure]
\* JSON.stringify of a value the client returned
JsonText == [form |-> "json", name |-> "none", message |-> NoFailure]
\* JSON.stringify({success, message, timestamp}) of a connection test
TestResultText(success, f) ==
  [form |-> IF success THEN "test succeeded" ELSE "test failed", name |-> "none",
   message |-> f]

VARIABLES
  now,              \* Date.now()
  clients,          \* CreatioClient objects, in order of construction
  currentClient,    \* creatio-client.ts: let currentClient (0 is null)
  mcpClient,        \* MCPServer.client (0 is null)
  tasks,            \* handler invocations suspended at an await
  nextTask,         \* number of handler invocations started so far
  lastResult,       \* the invocation that completed last, with its result
  everConnected,    \* history: some connect / connection test has succeeded
  disconnected,     \* history: disconnected and not successfully connected since
  conns,            \* SSE connections, in order of acceptance
  activeTransports, \* mcp-sse-server.ts: Map sessionId -> transport
  lastPost          \* history: the last POST /mcp/messages request and its answer

vars == <<now, clients, currentClient, mcpClient, tasks, nextTask, lastResult,
          everConnected, disconnected, conns, activeTransports, lastPost>>

clientVars    == <<clients, currentClient, mcpClient>>
historyVars   == <<everConnected, disconnected>>
transportVars == <<conns, activeTransports, lastPost>>

\* ------------------------------------------------------------ CreatioClient
\* A string of the login response is a sequence of atoms: cookie names, "=",
\* ";", " " and pieces of text without any of these.  Each string of a session
\* is kept with the login that produced it (0: none).
NoString == [login |-> 0, text |-> <<>>]

NullSession ==
  [has |-> FALSE, cookies |-> NoString, csrfToken |-> NoString,
   expiresAt |-> 0, expirySetBy |-> 0]

\* new CreatioClient(config)
NewClient(cfg) == [config |-> cfg, session |-> NullSession]

\* isSessionValid with a session still valid at the instant of its expiry
isSessionValidAtExpiry(c) ==
  IF ~clients[c].session.has THEN FALSE
  ELSE now <= clients[c].session.expiresAt

\* isSessionValid with a session of empty cookies or token not valid
isSessionValidNeedsCredentials(c) ==
  IF ~clients[c].session.has THEN FALSE
  ELSE /\ now < clients[c].session.expiresAt
       /\ clients[c].session.cookies.text # <<>>
       /\ clients[c].session.csrfToken.text # <<>>

isSessionValid(c) ==
  IF ~clients[c].session.has THEN FALSE
  ELSE now < clients[c].session.expiresAt

\* ---- the cookie extraction of authenticate()
\* String.prototype.trim
RECURSIVE TrimLeft(_)
TrimLeft(str) ==
  IF str # <<>> /\ Head(str) = " " THEN TrimLeft(Tail(str)) ELSE str
RECURSIVE TrimRight(_)
TrimRight(str) ==
  IF str # <<>> /\ str[Len(str)] = " " THEN TrimRight(SubSeq(str, 1, Len(str) - 1)) ELSE str
Trim(str) == TrimRight(TrimLeft(str))

\* the index of the first atom a of str, Len(str) + 1 when there is none
IndexOf(str, a) ==
  IF \E i \in 1..Len(str) : str[i] = a
    THEN CHOOSE i \in 1..Len(str) : str[i] = a /\ \A j \in 1..(i - 1) : str[j] # a
    ELSE Len(str) + 1

\* cookieHeader.match(/^([^=]+)=([^;]*)/): the trimmed name and value
CookieMatch(header) ==
  LET eq    == IndexOf(header, "=")
      rest  == SubSeq(header, eq + 1, Len(header))
      semi  == IndexOf(rest, ";") IN
  [matches |-> eq > 1 /\ eq <= Len(header),
   name    |-> Trim(SubSeq(header, 1, eq - 1)),
   value   |-> Trim(SubSeq(rest, 1, semi - 1))]

\* the names authenticate() keeps
KnownCookies == {<<"BPMCSRF">>, <<".ASPXAUTH">>, <<"BPMLOADER">>, <<"UserName">>}

\* the for loop over setCookieHeaders: cookieParts and csrfToken after it
RECURSIVE CookieLoop(_, _, _)
CookieLoop(headers, cookieParts, csrfToken) ==
  IF headers = <<>> THEN [cookieParts |-> cookieParts, csrfToken |-> csrfToken]
  ELSE LET m == CookieMatch(Head(headers)) IN
       CookieLoop(Tail(headers),
                  IF m.matches /\ m.name \in KnownCookies
                    THEN Append(cookieParts, m.name \o <<"=">> \o m.value)
                    ELSE cookieParts,
                  IF m.matches /\ m.name = <<"BPMCSRF">> THEN m.value ELSE csrfToken)

\* cookieParts.join("; ")
RECURSIVE Join(_)
Join(parts) ==
  IF parts = <<>> THEN <<>>
  ELSE IF Len(parts) = 1 THEN parts[1]
  ELSE parts[1] \o <<";", " ">> \o Join(Tail(parts))

\* cookies.match(/BPMCSRF=([^;]+)/): the captured text, <<>> without a match
BpmcsrfMatch(cookies) ==
  LET starts == {i \in 1..Len(cookies) :
                   /\ cookies[i] = "BPMCSRF"
                   /\ i + 2 <= Len(cookies)
                   /\ cookies[i + 1] = "="
                   /\ cookies[i + 2] # ";"} IN
  IF starts = {} THEN <<>>
  ELSE LET i    == CHOOSE k \in starts : \A j \in starts : k <= j
           rest == SubSeq(cookies, i + 2, Len(cookies)) IN
       SubSeq(rest, 1, IndexOf(rest, ";") - 1)

\* cookies and csrfToken as authenticate() extracts them from the Set-Cookie
\* headers of the login response
ExtractCookies(headers) ==
  LET loop    == CookieLoop(headers, <<>>, <<>>)
      cookies == Join(loop.cookieParts) IN
  [cookies   |-> cookies,
   csrfToken |-> IF loop.csrfToken = <<>> /\ cookies # <<>>
                   THEN BpmcsrfMatch(cookies) ELSE loop.csrfToken]

\* the Set-Cookie headers of an ordinary successful login
StandardHeaders == << <<"BPMCSRF", "=", "tok">> >>

\* NewSession with the token of the session it replaces kept
NewSessionKeepsToken(t, headers) ==
  LET ex  == ExtractCookies(headers)
      old == clients[tasks[t].client].session IN
  [has |-> TRUE,
   cookies   |-> [login |-> t, text |-> ex.cookies],
   csrfToken |-> IF old.has THEN old.csrfToken ELSE [login |-> t, text |-> ex.csrfToken],
   expiresAt |-> now + sessionTimeout, expirySetBy |-> t]

\* the session object built at the end of authenticate() by login t, whose
\* response carried the Set-Cookie headers given
NewSession(t, headers) ==
  LET ex == ExtractCookies(headers) IN
  [has |-> TRUE,
   cookies   |-> [login |-> t, text |-> ex.cookies],
   csrfToken |-> [login |-> t, text |-> ex.csrfToken],
   expiresAt |-> now + sessionTimeout, expirySetBy |-> t]

\* what authenticate() throws on a login outcome other than "ok"
LoginFailure(outcome) ==
  IF outcome = "httpFail" THEN Failure("Authentication failed", "authenticate", 401, "none")
  ELSE Failure("Login rejected", "authenticate", 0, "Message")

\* what the fetch of authenticate() throws on a config whose baseUrl is no URL
ConfigFailure == Failure("TypeError", "authenticate", 0, "none")

\* what getHeaders() throws without a session
NotAuthenticated == Failure("Not authenticated", "getHeaders", 0, "none")

\* what a handler throws when it reads a property of undefined arguments
ArgsFailure == Failure("TypeError", "arguments", 0, "none")

\* what the query tool function throws when accounts.map is not a function
MapFailure == Failure("TypeError", "accounts.map", 0, "none")

\* queryAccounts with the body parsed before the content type is looked at
queryAccountsParsesFirst(resp) ==
  IF ~ResponseOk(resp)
    THEN IF resp.html
           THEN Thrown(Failure("Creatio returned an error page", "CanUseODataService",
                               0, TitleOf(resp.body, "Access Denied")), FALSE)
           ELSE Thrown(Failure("Request failed", "Query", resp.status, resp.body), FALSE)
  ELSE IF IsJson(resp.body) /\ resp.body # "null"
    THEN Returned(ValueOrEmpty(resp.body), TRUE)
  ELSE IF resp.html
    THEN Thrown(Failure("Creatio returned HTML instead of JSON", "OData API access",
                        0, TitleOf(resp.body, "Unknown Error")), TRUE)
  ELSE Thrown(Failure("Invalid response from Creatio", "Query", 0, resp.body), TRUE)

\* queryAccounts() from the response of its fetch on
queryAccounts(resp) ==
  IF ~ResponseOk(resp)
    THEN IF resp.html
           THEN Thrown(Failure("Creatio returned an error page", "CanUseODataService",
                               0, TitleOf(resp.body, "Access Denied")), FALSE)
           ELSE Thrown(Failure("Request failed", "Query", resp.status, resp.body), FALSE)
  ELSE IF resp.html
    THEN Thrown(Failure("Creatio returned HTML instead of JSON", "OData API access",
                        0, TitleOf(resp.body, "Unknown Error")), FALSE)
  ELSE IF ~IsJson(resp.body) \/ resp.body = "null"
    THEN Thrown(Failure("Invalid response from Creatio", "Query", 0, resp.body), TRUE)
  ELSE Returned(ValueOrEmpty(resp.body), TRUE)

\* getAccountById() from the response of its fetch on
getAccountById(resp) ==
  IF resp.status = 404 THEN Returned("null", FALSE)
  ELSE IF ~ResponseOk(resp)
    THEN Thrown(Failure("Request failed", "Get account", resp.status, resp.body), FALSE)
  ELSE Returned("record", TRUE)

\* createAccount() and updateAccount() from the response of their fetch on
createAccount(resp) ==
  IF ~ResponseOk(resp)
    THEN Thrown(Failure("Request failed", "Create account", resp.status, resp.body), FALSE)
    ELSE Returned("record", TRUE)
updateAccount(resp) ==
  IF ~ResponseOk(resp)
    THEN Thrown(Failure("Request failed", "Update account", resp.status, resp.body), FALSE)
    ELSE Returned("void", FALSE)

\* deleteAccount with 204 as the only success
deleteAccountOnly204(resp) ==
  IF resp.status # 204
    THEN Thrown(Failure("Request failed", "Delete account", resp.status, resp.body), FALSE)
    ELSE Returned("void", FALSE)

\* deleteAccount() from the response of its fetch on
deleteAccount(resp) ==
  IF ~ResponseOk(resp) /\ resp.status # 204
    THEN Thrown(Failure("Request failed", "Delete account", resp.status, resp.body), FALSE)
    ELSE Returned("void", FALSE)

\* the client operation a data tool calls
ClientOp(tool, resp) ==
  CASE tool = "query_creatio_accounts"  -> queryAccounts(resp)
    [] tool = "get_creatio_account"     -> getAccountById(resp)
    [] tool = "create_creatio_account"  -> createAccount(resp)
    [] tool = "update_creatio_account"  -> updateAccount(resp)
    [] tool = "delete_creatio_account"  -> deleteAccount(resp)

\* Date.now() against session.expiresAt of client c, as the clock reads
ClockVsExpiry(c) ==
  IF ~clients[c].session.has THEN "no session"
  ELSE IF now < clients[c].session.expiresAt THEN "before"
  ELSE IF now = clients[c].session.expiresAt THEN "at"
  ELSE "after"

\* --------------------------------------------------- handler invocations
\* One record per invocation of a REST handler or of a tool handler:
\*   surface  "rest" (routes.ts), "exec" (MCPServer.executeTool), "sse" (CallTool handler)
\*   tool     the tool name; for "rest" the tool the route corresponds to
\*   client   the CreatioClient the invocation works on (0: none)
\*   pc       "login": awaiting the login response in authenticate()
\*            "fetch": awaiting the data response;  "done": returned
\*   conn     the SSE connection whose server runs the handler (0: none)
\*   sessionId  the handle the message of the call was posted with (<<>>: none)
\*   sentLogin / sentData   a login / data request was sent upstream
\*   noSuccessAtStart / afterDisconnect   history flags read at dispatch
\*   args     the arguments of the call
\*   top      the $top of the data request of a query (0: none)
\*   clock    Date.now() against the expiry of the client's session when the
\*            data operation started ("none": no data operation started)
\*   headers  the Set-Cookie headers of the login response that succeeded
\*   creds    the cookies and token in the headers of the data request
\*   resp     the response to the data request
\*   failure / value / parsed   what the client operation threw or returned
\*   result / isError / text    the result returned to the caller; text is
\*            the text block of a tool result (NoText on the REST routes)
NoCreds == [cookies |-> NoString, csrfToken |-> NoString]

\* the arguments of a call as far as the handlers read them: name is the
\* account name of a create ("given", "empty": the string "", "absent"), top
\* the top of a query (0: absent)
OrdinaryArgs == [name |-> "given", top |-> 0]
\* the tops a caller may send
Tops == {0, 1, 100, 101}
ArgsOf(tool) ==
  CASE tool = "create_creatio_account" -> [name : {"given", "empty", "absent"}, top : {0}]
    [] tool = "query_creatio_accounts" -> [name : {"given"}, top : Tops]
    [] OTHER -> {OrdinaryArgs}

\* top: params.top || 25 of the tool functions,
\* req.body.top ? parseInt(req.body.top, 10) : 25 of the route
TopParam(top) == IF top # 0 THEN top ELSE 25
\* the $top of the query string: if (params.top) queryParts.push(`$top=...`)
TopSent(top) == IF TopParam(top) # 0 THEN TopParam(top) ELSE 0

NoTask ==
  [id |-> 0, surface |-> "none", tool |-> "none", client |-> 0, pc |-> "done",
   conn |-> 0, sessionId |-> <<>>, sentLogin |-> FALSE, sentData |-> FALSE,
   noSuccessAtStart |-> FALSE, afterDisconnect |-> FALSE,
   args |-> OrdinaryArgs, top |-> 0,
   clock |-> "none", headers |-> <<>>, creds |-> NoCreds, resp |-> NoResp,
   failure |-> NoFailure, value |-> "none", parsed |-> FALSE,
   result |-> "none", isError |-> FALSE, text |-> NoText]

NewTask(surface, tool, c, sid) ==
  [NoTask EXCEPT !.id = nextTask + 1, !.surface = surface, !.tool = tool,
                 !.pc = "start", !.conn = c, !.sessionId = sid,
                 !.noSuccessAtStart = ~everConnected,
                 !.afterDisconnect = disconnected]

\* the handler awaits: it stays in tasks
Suspend(rec) ==
  /\ tasks' = [t \in DOMAIN tasks \cup {rec.id} |-> IF t = rec.id THEN rec ELSE tasks[t]]
  /\ UNCHANGED <<lastResult, conns>>

\* the handler returns: a tool result of the SSE handler is sent on the
\* transport of its connection (written to the stream while it is open)
Complete(rec, result, isError) ==
  /\ tasks' = [t \in DOMAIN tasks \ {rec.id} |-> tasks[t]]
  /\ lastResult' = [rec EXCEPT !.pc = "done", !.result = result, !.isError = isError]
  /\ conns' = IF rec.surface = "sse" /\ rec.conn # 0 /\ conns[rec.conn].open
                THEN [conns EXCEPT ![rec.conn].stream =
                        Append(@, [type |-> "response", id |-> rec.id,
                                   sessionId |-> rec.sessionId])]
                ELSE conns

\* the text block of the result: the REST routes answer JSON bodies instead
TextOn(rec, text) == IF rec.surface = "rest" THEN NoText ELSE text

\* an Error reaches the catch of the dispatcher (or of the route)
Throw(rec, f) ==
  Complete([rec EXCEPT !.failure = f, !.text = TextOn(rec, ErrorText(rec.tool, f))],
           "error", TRUE)

\* TestIsError with no test result marked as an error
TestIsErrorNever(success) == FALSE
\* isError of the result of a connection test
TestIsError(success) == ~success

\* client.testConnection() has caught f: the test result reports it
TestFailed(rec, f) ==
  Complete([rec EXCEPT !.failure = f, !.text = TextOn(rec, TestResultText(FALSE, f))],
           "testFailed", TestIsError(FALSE))

\* getHeaders() of the session held in the state clientsNow
getHeaders(rec, clientsNow) ==
  [cookies   |-> clientsNow[rec.client].session.cookies,
   csrfToken |-> clientsNow[rec.client].session.csrfToken]

\* getHeaders() and the data fetch that follow ensureAuthenticated() in
\* every data operation of client c, as seen in the state clientsNow
SendData(rec, clientsNow) ==
  IF ~clientsNow[rec.client].session.has
    THEN Throw(rec, NotAuthenticated)
    ELSE Suspend([rec EXCEPT !.pc = "fetch", !.sentData = TRUE,
                             !.top = IF rec.tool = "query_creatio_accounts"
                                       THEN TopSent(rec.args.top) ELSE 0,
                             !.creds = getHeaders(rec, clientsNow)])

\* client.queryAccounts / getAccountById / createAccount / updateAccount /
\* deleteAccount up to their first fetch: ensureAuthenticated() starts
\* authenticate() when the session is not valid
\* StartDataOp without ensureAuthenticated()
StartDataOpNoEnsure(rec, c) ==
  SendData([rec EXCEPT !.client = c, !.clock = ClockVsExpiry(c)], clients)

StartDataOp(rec, c) ==
  LET r == [rec EXCEPT !.client = c, !.clock = ClockVsExpiry(c)] IN
  IF isSessionValid(c)
    THEN SendData(r, clients)
  ELSE IF clients[c].config = "invalid"
    THEN Throw(r, ConfigFailure)
  ELSE Suspend([r EXCEPT !.pc = "login", !.sentLogin = TRUE])

\* the tool functions queryAccounts .. deleteAccount of both dispatchers:
\* ptr is the pointer the dispatcher reads
DataTool(rec, ptr) ==
  IF ptr = 0
    THEN Complete([rec EXCEPT !.text = TextOn(rec, NotConnectedText)], "notConnected", TRUE)
    ELSE StartDataOp(rec, ptr)

\* testConnection of both dispatchers up to the await of client.testConnection()
TestConnectionTool(rec, cfg) ==
  LET c == Len(clients) + 1 IN
  /\ Len(clients) < MaxClients
  /\ clients' = Append(clients, NewClient(cfg))
  /\ IF cfg = "invalid"
       THEN TestFailed([rec EXCEPT !.client = c], ConfigFailure)
       ELSE Suspend([rec EXCEPT !.client = c, !.pc = "login", !.sentLogin = TRUE])

\* the default branch of both switches
UnknownTool(rec) ==
  Complete([rec EXCEPT !.text = UnknownToolText(rec.tool)], "unknownTool", TRUE)

\* executeTool without the case of delete_creatio_account
executeToolWithoutDelete(rec, cfg) ==
  /\ nextTask' = rec.id
  /\ CASE rec.tool = TestTool -> TestConnectionTool(rec, cfg)
       [] rec.tool \in DataTools \ {"delete_creatio_account"} ->
            DataTool(rec, mcpClient) /\ UNCHANGED clients
       [] OTHER -> UnknownTool(rec) /\ UNCHANGED clients

\* the switch of MCPServer.executeTool
executeTool(rec, cfg) ==
  /\ nextTask' = rec.id
  /\ CASE rec.tool = TestTool -> TestConnectionTool(rec, cfg)
       [] rec.tool \in DataTools -> DataTool(rec, mcpClient) /\ UNCHANGED clients
       [] OTHER -> UnknownTool(rec) /\ UNCHANGED clients

\* a data tool of the SSE handler called without arguments: the handler reads
\* args.id of get and delete before it calls the tool function, the other
\* tool functions read their arguments after the pointer
UndefinedArgs(rec) ==
  IF rec.tool \in {"get_creatio_account", "delete_creatio_account"} \/ currentClient # 0
    THEN Throw(rec, ArgsFailure)
    ELSE Complete([rec EXCEPT !.text = NotConnectedText], "notConnected", TRUE)

\* the switch of the CallToolRequestSchema handler
CallToolHandler(rec, cfg) ==
  /\ nextTask' = rec.id
  /\ CASE rec.tool = TestTool -> TestConnectionTool(rec, cfg)
       [] rec.tool \in DataTools /\ cfg = "undefined" ->
            UndefinedArgs(rec) /\ UNCHANGED clients
       [] rec.tool \in DataTools -> DataTool(rec, currentClient) /\ UNCHANGED clients
       [] OTHER -> UnknownTool(rec) /\ UNCHANGED clients

\* ----------------------------------------------------------------- actions
\* POST /api/mcp/execute
ExecuteTool(tool, cfg) ==
  /\ nextTask < MaxTasks
  /\ executeTool(NewTask("exec", tool, 0, <<>>), cfg)
  /\ UNCHANGED <<now, currentClient, mcpClient, historyVars, activeTransports, lastPost>>

\* the CallTool handler of a protocol server, whatever connection it is bound to
CallTool(tool, cfg) ==
  /\ nextTask < MaxTasks
  /\ CallToolHandler(NewTask("sse", tool, 0, <<>>), cfg)
  /\ UNCHANGED <<now, currentClient, mcpClient, historyVars, activeTransports, lastPost>>

\* POST /api/mcp/execute with a data tool and arguments
ExecuteToolWith(tool, args) ==
  /\ nextTask < MaxTasks
  /\ tool \in DataTools
  /\ executeTool([NewTask("exec", tool, 0, <<>>) EXCEPT !.args = args], "none")
  /\ UNCHANGED <<now, currentClient, mcpClient, historyVars, activeTransports, lastPost>>

\* the CallTool handler with a data tool and arguments
CallToolWith(tool, args) ==
  /\ nextTask < MaxTasks
  /\ tool \in DataTools
  /\ CallToolHandler([NewTask("sse", tool, 0, <<>>) EXCEPT !.args = args], "none")
  /\ UNCHANGED <<now, currentClient, mcpClient, historyVars, activeTransports, lastPost>>

\* POST /api/creatio/connect
RestConnect(cfg) ==
  LET rec == NewTask("rest", TestTool, 0, <<>>)
      c   == Len(clients) + 1 IN
  /\ nextTask < MaxTasks
  /\ nextTask' = rec.id
  /\ IF cfg = "invalid"
       THEN /\ Complete(rec, "badRequest", TRUE)
            /\ UNCHANGED <<clients, currentClient>>
       ELSE /\ Len(clients) < MaxClients
            /\ clients' = Append(clients, NewClient(cfg))
            /\ currentClient' = c
            /\ Suspend([rec EXCEPT !.client = c, !.pc = "login", !.sentLogin = TRUE])
  /\ UNCHANGED <<now, mcpClient, historyVars, activeTransports, lastPost>>

\* POST /api/creatio/accounts/query, GET|POST|PATCH|DELETE /api/creatio/accounts
RestData(tool) ==
  LET rec == NewTask("rest", tool, 0, <<>>) IN
  /\ nextTask < MaxTasks
  /\ nextTask' = rec.id
  /\ DataTool(rec, currentClient)
  /\ UNCHANGED <<now, clientVars, historyVars, activeTransports, lastPost>>

\* the same routes with the body of the request: POST /api/creatio/accounts
\* answers 400 to a body without a Name once it has found a client
RestDataWith(tool, args) ==
  LET rec == [NewTask("rest", tool, 0, <<>>) EXCEPT !.args = args] IN
  /\ nextTask < MaxTasks
  /\ nextTask' = rec.id
  /\ IF tool = "create_creatio_account" /\ currentClient # 0 /\ args.name # "given"
       THEN Complete(rec, "badRequest", TRUE)
       ELSE DataTool(rec, currentClient)
  /\ UNCHANGED <<now, clientVars, historyVars, activeTransports, lastPost>>

\* POST /api/creatio/disconnect
Disconnect ==
  /\ currentClient' = 0
  /\ disconnected' = TRUE
  /\ UNCHANGED <<now, clients, mcpClient, tasks, nextTask, lastResult,
                 everConnected, transportVars>>

\* the pointer writes that follow a successful client.testConnection()
PromoteCurrent(rec) ==
  IF rec.surface = "sse" THEN rec.client ELSE currentClient
PromoteMcp(rec) ==
  IF rec.surface \in {"rest", "exec"} THEN rec.client ELSE mcpClient

\* authenticate() completes on a login response with status 2xx and Code 0
\* that carries the Set-Cookie headers given, and its callers run on
LoginOk(t, headers) ==
  LET rec == [tasks[t] EXCEPT !.headers = headers] IN
  /\ rec.pc = "login"
  /\ clients' = [clients EXCEPT ![rec.client].session = NewSession(t, headers)]
  /\ IF rec.tool = TestTool
       THEN /\ currentClient' = PromoteCurrent(rec)
            /\ mcpClient' = PromoteMcp(rec)
            /\ everConnected' = TRUE
            /\ disconnected' = FALSE
            /\ Complete([rec EXCEPT !.text =
                           TextOn(rec, TestResultText(TRUE, NoFailure))],
                        "ok", TestIsError(TRUE))
       ELSE /\ SendData(rec, clients')
            /\ UNCHANGED <<currentClient, mcpClient, historyVars>>
  /\ UNCHANGED <<now, nextTask, activeTransports, lastPost>>

\* LoginFailed with the session of the client cleared
LoginFailedClearsSession(t, outcome) ==
  LET rec == tasks[t] IN
  /\ rec.pc = "login"
  /\ clients' = [clients EXCEPT ![rec.client].session = NullSession]
  /\ IF rec.tool = TestTool THEN TestFailed(rec, LoginFailure(outcome))
                            ELSE Throw(rec, LoginFailure(outcome))
  /\ UNCHANGED <<now, currentClient, mcpClient, nextTask, historyVars,
                 activeTransports, lastPost>>

\* authenticate() throws on a login response with another status or Code
LoginFailed(t, outcome) ==
  LET rec == tasks[t] IN
  /\ rec.pc = "login"
  /\ IF rec.tool = TestTool THEN TestFailed(rec, LoginFailure(outcome))
                            ELSE Throw(rec, LoginFailure(outcome))
  /\ UNCHANGED <<now, clientVars, nextTask, historyVars, activeTransports, lastPost>>

\* LoginResponse with the pointers written whatever the test result says
LoginResponsePromotesAlways(t, outcome) ==
  LET rec == tasks[t] IN
  IF outcome = "ok" THEN LoginOk(t, StandardHeaders)
  ELSE /\ rec.pc = "login"
       /\ IF rec.tool = TestTool
            THEN /\ TestFailed(rec, LoginFailure(outcome))
                 /\ currentClient' = PromoteCurrent(rec)
                 /\ mcpClient' = PromoteMcp(rec)
            ELSE /\ Throw(rec, LoginFailure(outcome))
                 /\ UNCHANGED <<currentClient, mcpClient>>
       /\ UNCHANGED <<now, clients, nextTask, historyVars, activeTransports, lastPost>>

\* the login response of authenticate() arrives; authenticate() and its callers run on
LoginResponse(t, outcome) ==
  IF outcome = "ok" THEN LoginOk(t, StandardHeaders) ELSE LoginFailed(t, outcome)

\* the data response arrives and the operation returns or throws
\* DataResponse with the expiry of the session moved on by a response that
\* is ok (a sliding renewal)
DataResponseRenews(t, resp) ==
  LET rec == tasks[t]
      out == ClientOp(rec.tool, resp)
      r   == [rec EXCEPT !.resp = resp, !.failure = out.failure,
                         !.value = out.value, !.parsed = out.parsed] IN
  /\ rec.pc = "fetch"
  /\ resp \in ResponsesOf(rec.tool)
  /\ IF out.failure # NoFailure THEN Throw(r, out.failure)
     ELSE IF out.value = "text" /\ rec.surface # "rest" THEN Throw(r, MapFailure)
     ELSE IF out.value = "null"
       THEN Complete([r EXCEPT !.text = TextOn(r, AccountNotFoundText)], "notFound", TRUE)
     ELSE Complete([r EXCEPT !.text = TextOn(r, JsonText)], "ok", FALSE)
  /\ clients' = IF ResponseOk(resp)
                  THEN [clients EXCEPT ![rec.client].session.expiresAt =
                                          now + sessionTimeout]
                  ELSE clients
  /\ UNCHANGED <<now, currentClient, mcpClient, nextTask, historyVars,
                 activeTransports, lastPost>>

DataResponse(t, resp) ==
  LET rec == tasks[t]
      out == ClientOp(rec.tool, resp)
      r   == [rec EXCEPT !.resp = resp, !.failure = out.failure,
                         !.value = out.value, !.parsed = out.parsed] IN
  /\ rec.pc = "fetch"
  /\ resp \in ResponsesOf(rec.tool)
  /\ IF out.failure # NoFailure THEN Throw(r, out.failure)
     ELSE IF out.value = "text" /\ rec.surface # "rest" THEN Throw(r, MapFailure)
     ELSE IF out.value = "null"
       THEN Complete([r EXCEPT !.text = TextOn(r, AccountNotFoundText)], "notFound", TRUE)
     ELSE Complete([r EXCEPT !.text = TextOn(r, JsonText)], "ok", FALSE)
  /\ UNCHANGED <<now, clientVars, nextTask, historyVars, activeTransports, lastPost>>

\* time passes
Tick ==
  /\ now < MaxTicks * TickMs
  /\ now' = now + TickMs
  /\ UNCHANGED <<clientVars, tasks, nextTask, lastResult, historyVars, transportVars>>

\* ------------------------------------------- session-routed transport
\* One record per accepted GET /mcp/sse connection:
\*   sessionId     the handle generated for it
\*   open          the underlying connection is open
\*   pc            "connecting": the handler awaits server.connect(transport)
\*                 "streaming": connected, the handler has returned
\*                 "failed": server.connect rejected, the handler has thrown
\*                 "closed": the close listener has run
\*   listening     req.on("close", ...) has been called
\*   closeEmitted  the close event of the request has been emitted
\*   stream        the events written to the response, in order

\* crypto.randomUUID(): a handle different from every handle issued before
randomUUID == Len(conns) + 1

\* activeTransports.set(h, c)
MapSet(m, h, c) == [k \in DOMAIN m \cup {h} |-> IF k = h THEN c ELSE m[k]]
\* a delete that removes nothing
MapDeleteKeeps(m, h) == m

\* activeTransports.delete(h)
MapDelete(m, h) == [k \in DOMAIN m \ {h} |-> m[k]]

\* SseAccept with the handle written to the stream and not yet registered
SseAcceptEmitsUnregistered ==
  LET sessionId == randomUUID
      c         == Len(conns) + 1 IN
  /\ Len(conns) < MaxConns
  /\ conns' = Append(conns,
       [sessionId |-> sessionId, open |-> TRUE, pc |-> "connecting",
        listening |-> FALSE, closeEmitted |-> FALSE,
        stream |-> <<[type |-> "sessionId", id |-> 0,
                     sessionId |-> <<sessionId>>]>>])
  /\ UNCHANGED <<now, clientVars, tasks, nextTask, lastResult, historyVars,
                 activeTransports, lastPost>>

\* GET /mcp/sse up to the await of server.connect(transport)
SseAccept ==
  LET sessionId == randomUUID
      c         == Len(conns) + 1 IN
  /\ Len(conns) < MaxConns
  /\ activeTransports' = MapSet(activeTransports, sessionId, c)
  /\ conns' = Append(conns,
       [sessionId |-> sessionId, open |-> TRUE, pc |-> "connecting",
        listening |-> FALSE, closeEmitted |-> FALSE,
        stream |-> <<[type |-> "sessionId", id |-> 0,
                     sessionId |-> <<sessionId>>]>>])
  /\ UNCHANGED <<now, clientVars, tasks, nextTask, lastResult, historyVars, lastPost>>

\* server.connect(transport) settles: the handler registers the close
\* listener when it resolved and ends without it when it rejected
ServerConnect(c, ok) ==
  /\ conns[c].pc = "connecting"
  /\ conns' = IF ok THEN [conns EXCEPT ![c].pc = "streaming", ![c].listening = TRUE]
                    ELSE [conns EXCEPT ![c].pc = "failed"]
  /\ UNCHANGED <<now, clientVars, tasks, nextTask, lastResult, historyVars,
                 activeTransports, lastPost>>

\* the client goes away or the network fails
ConnClose(c) ==
  /\ conns[c].open
  /\ conns' = [conns EXCEPT ![c].open = FALSE]
  /\ UNCHANGED <<now, clientVars, tasks, nextTask, lastResult, historyVars,
                 activeTransports, lastPost>>

\* the close event is emitted: the listener runs if it is registered by then
EmitClose(c) ==
  /\ ~conns[c].open
  /\ ~conns[c].closeEmitted
  /\ IF conns[c].listening
       THEN /\ activeTransports' = MapDelete(activeTransports, conns[c].sessionId)
            /\ conns' = [conns EXCEPT ![c].closeEmitted = TRUE, ![c].pc = "closed"]
       ELSE /\ conns' = [conns EXCEPT ![c].closeEmitted = TRUE]
            /\ UNCHANGED activeTransports
  /\ UNCHANGED <<now, clientVars, tasks, nextTask, lastResult, historyVars, lastPost>>

\* the connections whose close listener has run for handle h
ClosedHandle(h) ==
  \E c \in 1..Len(conns) : conns[c].sessionId = h /\ conns[c].pc = "closed"

\* one request to POST /mcp/messages, as recorded in lastPost:
\*   id         the number of the request
\*   sessionId  the query parameter as a sequence: <<>> when missing or empty
\*   status     the HTTP status answered
\*   transport  the connection whose transport got the message (0: none)
\*   closed     the close listener of the handle had run before the request
PostEntry(sid, status, c) ==
  [id |-> nextTask + 1, sessionId |-> sid, status |-> status, transport |-> c,
   closed |-> (sid # <<>> /\ ClosedHandle(sid[1]))]

NoPost == [id |-> 0, sessionId |-> <<>>, status |-> 0, transport |-> 0, closed |-> FALSE]

\* a lookup that returns some registered transport, whatever the key found
MapGetAny(m, sid) ==
  IF sid # <<>> /\ sid[1] \in DOMAIN m THEN m[CHOOSE k \in DOMAIN m : TRUE] ELSE 0

\* activeTransports.get(sid): 0 when there is no entry
MapGet(m, sid) == IF sid # <<>> /\ sid[1] \in DOMAIN m THEN m[sid[1]] ELSE 0

\* transport.handlePostMessage can take the message only on a started, open transport
CanHandle(c) == conns[c].pc = "streaming" /\ conns[c].open

\* the statuses without the check for a missing sessionId
PostStatusNoIdCheck(sid, transport, handled) ==
  IF transport = 0 THEN 404
  ELSE IF ~(handled /\ CanHandle(transport)) THEN 500
  ELSE 202

\* the status POST /mcp/messages answers; handled: handlePostMessage does not throw
PostStatus(sid, transport, handled) ==
  IF sid = <<>> THEN 400
  ELSE IF transport = 0 THEN 404
  ELSE IF ~(handled /\ CanHandle(transport)) THEN 500
  ELSE 202

\* POST /mcp/messages?sessionId=sid carrying a tools/call message
PostMessage(sid, tool, cfg, handled) ==
  LET transport == MapGet(activeTransports, sid)
      status    == PostStatus(sid, transport, handled) IN
  /\ nextTask < MaxTasks
  /\ IF status = 202
       THEN /\ lastPost' = PostEntry(sid, status, transport)
            /\ CallToolHandler(NewTask("sse", tool, transport, sid), cfg)
       ELSE /\ lastPost' = PostEntry(sid, status, 0)
            /\ nextTask' = nextTask + 1
            /\ UNCHANGED <<clients, tasks, lastResult, conns>>
  /\ UNCHANGED <<now, currentClient, mcpClient, historyVars, activeTransports>>

Init ==
  /\ now = 0
  /\ clients = <<>>
  /\ currentClient = 0
  /\ mcpClient = 0
  /\ tasks = [t \in {} |-> NoTask]
  /\ nextTask = 0
  /\ lastResult = NoTask
  /\ everConnected = FALSE
  /\ disconnected = FALSE
  /\ conns = <<>>
  /\ activeTransports = [h \in {} |-> 0]
  /\ lastPost = NoPost

\* the dispatch surfaces and the client, without the transport
Next ==
  \/ \E cfg \in Configs : RestConnect(cfg)
  \/ \E tool \in DataTools : RestData(tool)
  \/ \E call \in ToolCalls : ExecuteTool(call[1], call[2])
  \/ \E call \in SseCalls : CallTool(call[1], call[2])
  \/ Disconnect
  \/ \E t \in DOMAIN tasks, o \in LoginOutcomes : LoginResponse(t, o)
  \/ \E t \in DOMAIN tasks : \E resp \in ResponsesOf(tasks[t].tool) : DataResponse(t, resp)
  \/ Tick

Spec == Init /\ [][Next]_vars

\* the transport with the tool calls it routes
\* the handles a caller may send: the issued ones, one never issued, none
Handles == {<<conns[c].sessionId>> : c \in 1..Len(conns)} \cup {<<MaxConns + 1>>, <<>>}

\* the calls posted: one that logs in upstream, one data operation, one
\* that returns without any upstream request (a message that handlePostMessage
\* throws on starts no call, whatever it carries)
PostedCalls == {<<TestTool, "valid">>, <<"query_creatio_accounts", "none">>,
                <<BogusTool, "none">>}

\* the responses the posted data operation receives: a list, an error page,
\* a body that is not JSON
PostedResponses == {[status |-> 200, html |-> FALSE, body |-> "list"],
                    [status |-> 403, html |-> TRUE, body |-> "htmlTitled"],
                    [status |-> 200, html |-> FALSE, body |-> "garbage"]}

\* the outcomes of the logins of the posted calls: accepted, refused
PostedLogins == {"ok", "httpFail"}

NextTransport ==
  \/ SseAccept
  \/ \E c \in 1..Len(conns), ok \in BOOLEAN : ServerConnect(c, ok)
  \/ \E c \in 1..Len(conns) : ConnClose(c)
  \/ \E c \in 1..Len(conns) : EmitClose(c)
  \/ \E sid \in Handles, handled \in BOOLEAN :
       \E call \in IF handled THEN PostedCalls ELSE {<<BogusTool, "none">>} :
         PostMessage(sid, call[1], call[2], handled)
  \/ \E t \in DOMAIN tasks, o \in PostedLogins : LoginResponse(t, o)
  \/ \E t \in DOMAIN tasks, resp \in PostedResponses : DataResponse(t, resp)

\* the posted calls and their upstream requests over connections whose
\* server.connect resolves
NextPosted ==
  \/ SseAccept
  \/ \E c \in 1..Len(conns) : ServerConnect(c, TRUE)
  \/ \E c \in 1..Len(conns) : ConnClose(c)
  \/ \E c \in 1..Len(conns) : EmitClose(c)
  \/ \E sid \in Handles, handled \in BOOLEAN :
       \E call \in IF handled THEN PostedCalls ELSE {<<BogusTool, "none">>} :
         PostMessage(sid, call[1], call[2], handled)
  \/ \E t \in DOMAIN tasks, o \in PostedLogins : LoginResponse(t, o)
  \/ \E t \in DOMAIN tasks, resp \in PostedResponses : DataResponse(t, resp)

SpecPosted == Init /\ [][NextPosted]_vars

\* the connections, the registry and the posted messages alone: every
\* message carries a call that returns without an upstream request
NextHandles ==
  \/ SseAccept
  \/ \E c \in 1..Len(conns), ok \in BOOLEAN : ServerConnect(c, ok)
  \/ \E c \in 1..Len(conns) : ConnClose(c)
  \/ \E c \in 1..Len(conns) : EmitClose(c)
  \/ \E sid \in Handles, handled \in BOOLEAN : PostMessage(sid, BogusTool, "none", handled)

SpecHandles == Init /\ [][NextHandles]_vars

\* the two tool dispatchers and the connect route, with the client and the clock
NextTools ==
  \/ \E cfg \in Configs : RestConnect(cfg)
  \/ \E call \in ToolCalls : ExecuteTool(call[1], call[2])
  \/ \E call \in SseCalls : CallTool(call[1], call[2])
  \/ \E t \in DOMAIN tasks, o \in LoginOutcomes : LoginResponse(t, o)
  \/ \E t \in DOMAIN tasks : \E resp \in ResponsesOf(tasks[t].tool) : DataResponse(t, resp)
  \/ Tick

SpecTools == Init /\ [][NextTools]_vars

\* the upstream answers of the data operations: every status, a JSON body
SessionResponses(tool) ==
  {resp \in ResponsesOf(tool) : ~resp.html /\ resp.body \in {"list", "text"}}

\* ---- the cookie extraction over lists of Set-Cookie headers
MaxHeaders == 2   \* Set-Cookie headers in one login response

\* Set-Cookie headers, as sequences of pieces of text: the four known cookies
\* (one with an attribute), another cookie, BPMCSRF with an empty value and
\* after a blank, a value that holds the text BPMCSRF=emb, and a header
\* without "="
CookieHeaders ==
  { <<"BPMCSRF", "=", "tok">>,
    <<".ASPXAUTH", "=", "auth", ";", " ", "HttpOnly">>,
    <<"BPMLOADER", "=", "ldr">>,
    <<"UserName", "=", "usr">>,
    <<"Other", "=", "x">>,
    <<"BPMCSRF", "=">>,
    <<" ", "BPMCSRF", "=", "tok2">>,
    <<"UserName", "=", "BPMCSRF", "=", "emb">>,
    <<"novalue">> }

HeaderLists == UNION {[1..n -> CookieHeaders] : n \in 0..MaxHeaders}

\* the connect route and one data route over logins that succeed with any of
\* the header lists
NextCookies ==
  \/ \E cfg \in Configs : RestConnect(cfg)
  \/ \E tool \in DataTools : RestData(tool)
  \/ \E t \in DOMAIN tasks, headers \in HeaderLists : LoginOk(t, headers)
  \/ \E t \in DOMAIN tasks : \E resp \in SessionResponses(tasks[t].tool) : DataResponse(t, resp)

SpecCookies == Init /\ [][NextCookies]_vars

\* the three surfaces with the arguments of the create and query calls
NextArgs ==
  \/ \E cfg \in Configs : RestConnect(cfg)
  \/ \E cfg \in Configs : ExecuteTool(TestTool, cfg)
  \/ \E cfg \in Configs : CallTool(TestTool, cfg)
  \/ \E tool \in DataTools : \E args \in ArgsOf(tool) : RestDataWith(tool, args)
  \/ \E tool \in DataTools : \E args \in ArgsOf(tool) : ExecuteToolWith(tool, args)
  \/ \E tool \in DataTools : \E args \in ArgsOf(tool) : CallToolWith(tool, args)
  \/ \E t \in DOMAIN tasks, o \in LoginOutcomes : LoginResponse(t, o)
  \/ \E t \in DOMAIN tasks : \E resp \in SessionResponses(tasks[t].tool) : DataResponse(t, resp)

SpecArgs == Init /\ [][NextArgs]_vars

\* the connect route and the data routes with the client and the clock, over
\* logins that succeed with and without cookies
\* the Set-Cookie headers of a successful login: the ordinary ones, none, and
\* an authentication cookie without the BPMCSRF cookie
SessionHeaders == {StandardHeaders, <<>>, << <<".ASPXAUTH", "=", "auth">> >>}

NextSession ==
  \/ \E cfg \in Configs : RestConnect(cfg)
  \/ \E tool \in DataTools : RestData(tool)
  \/ \E t \in DOMAIN tasks, headers \in SessionHeaders : LoginOk(t, headers)
  \/ \E t \in DOMAIN tasks, o \in LoginOutcomes \ {"ok"} : LoginFailed(t, o)
  \/ \E t \in DOMAIN tasks : \E resp \in SessionResponses(tasks[t].tool) : DataResponse(t, resp)
  \/ Tick

SpecSession == Init /\ [][NextSession]_vars

SpecTransport == Init /\ [][NextTransport]_vars

\* ------------------------------------------------------------------ claims
\* the invocations in flight and the one that completed last
Invocations ==
  {tasks[t] : t \in DOMAIN tasks} \cup (IF lastResult.id = 0 THEN {} ELSE {lastResult})

\* the logins of client c in flight
LoginsInFlight(c) == {t \in DOMAIN tasks : tasks[t].client = c /\ tasks[t].pc = "login"}

\* C1: after a connect or connection test whose login failed, on any surface,
\* the client that attempted the login holds no session and neither pointer
\* refers to it.
C1_FailedLoginNotPromoted ==
  (lastResult.tool = TestTool /\ lastResult.sentLogin /\ lastResult.result = "testFailed")
    => /\ ~clients[lastResult.client].session.has
       /\ currentClient # lastResult.client
       /\ mcpClient # lastResult.client

\* C2: a data tool dispatched while no connect or connection test has succeeded
\* yet returns the not-connected error and sends nothing upstream.
C2_NotConnectedBeforeSuccess ==
  \A r \in Invocations :
    (r.surface \in {"sse", "exec"} /\ r.tool \in DataTools /\ r.noSuccessAtStart)
      => /\ ~r.sentLogin
         /\ ~r.sentData
         /\ r.pc = "done"
         /\ r.result = "notConnected"
         /\ r.isError

\* C4: at most one login of a client is in flight at any time.
C4_OneLoginInFlight ==
  \A c \in 1..Len(clients) : Cardinality(LoginsInFlight(c)) <= 1

\* C6: a data tool dispatched after a disconnect and before the next successful
\* connect or connection test reports not-connected and sends nothing upstream,
\* on every surface.
C6_NotConnectedAfterDisconnect ==
  \A r \in Invocations :
    (r.tool \in DataTools /\ r.afterDisconnect)
      => /\ ~r.sentLogin
         /\ ~r.sentData
         /\ r.pc = "done"
         /\ r.result = "notConnected"

\* C7: whenever no connect or connection test is in flight, the pointer read by
\* the SSE dispatcher and the REST routes and the pointer read by
\* MCPServer.executeTool refer to the same client (or are both null).
C7_SurfacesSeeSameClient ==
  (\A t \in DOMAIN tasks : tasks[t].tool # TestTool) => currentClient = mcpClient

\* the response events of a stream, in the order written
Responses(c) == SelectSeq(conns[c].stream, LAMBDA ev : ev.type = "response")

\* C3: once a connection has closed, its close event has been emitted and its
\* accept handler is no longer awaiting server.connect, its handle is not in
\* the registry.
C3_ClosedHandleRemoved ==
  \A c \in 1..Len(conns) :
    (~conns[c].open /\ conns[c].closeEmitted /\ conns[c].pc # "connecting")
      => conns[c].sessionId \notin DOMAIN activeTransports

\* C5: the responses written to one stream appear in the order in which their
\* messages were posted.
C5_ResponsesInPostOrder ==
  \A c \in 1..Len(conns) :
    \A i, j \in 1..Len(Responses(c)) :
      i < j => Responses(c)[i].id < Responses(c)[j].id

\* C8: a message posted with a handle whose close listener has run is answered
\* 404, as one posted with a handle never issued, and is handed to no transport.
C8_ClosedHandleIs404 ==
  /\ lastPost.closed =>
       /\ lastPost.status = 404
       /\ lastPost.transport = 0
       /\ \A r \in Invocations : r.id # lastPost.id
  /\ lastPost.sessionId = <<MaxConns + 1>> => lastPost.status = 404

C8_Witness ==
  /\ lastPost.closed
  /\ lastPost.status = 404
  /\ conns[lastPost.sessionId[1]].pc = "closed"

\* C9: a message posted with handle h is handed only to the transport of the
\* connection that was accepted with handle h, the call it starts runs on the
\* server of that connection, and its response is written on that stream.
C9_RoutedToOwnTransport ==
  /\ lastPost.transport # 0 =>
       <<conns[lastPost.transport].sessionId>> = lastPost.sessionId
  /\ \A r \in Invocations :
       r.conn # 0 => <<conns[r.conn].sessionId>> = r.sessionId
  /\ \A c \in 1..Len(conns) :
       \A i \in 1..Len(conns[c].stream) :
         conns[c].stream[i].sessionId = <<conns[c].sessionId>>

C9_Witness ==
  /\ Len(conns) = 2
  /\ DOMAIN activeTransports = {1, 2}
  /\ lastPost.transport = 2
  /\ Len(Responses(2)) = 1
  /\ Len(Responses(1)) = 0

\* C10: a POST without a sessionId is answered 400, one whose sessionId is not
\* in the registry is answered 404, and both leave the registry and every
\* connection with its stream unchanged.
C10_BadSessionIdAnswer ==
  [][lastPost'.id # lastPost.id =>
       LET sid == lastPost'.sessionId IN
       /\ sid = <<>> =>
            /\ lastPost'.status = 400
            /\ UNCHANGED <<activeTransports, conns>>
       /\ (sid # <<>> /\ sid[1] \notin DOMAIN activeTransports) =>
            /\ lastPost'.status = 404
            /\ UNCHANGED <<activeTransports, conns>>]_vars

C10_Witness ==
  /\ lastPost.sessionId = <<MaxConns + 1>>
  /\ lastPost.status = 404
  /\ \E c \in 1..Len(conns) :
       /\ CanHandle(c)
       /\ conns[c].sessionId \in DOMAIN activeTransports

\* the tool calls that took the step: started, resumed or returned in it
Stepped == {r \in Invocations' : r \notin Invocations /\ r.surface \in {"sse", "exec"}}

\* C11: a step of a tool call other than the return of a successful connection
\* test (its start, a failed test, any step of a query, get, create, update or
\* delete call, an unknown tool) leaves both client pointers as they were.
C11_OnlySuccessfulTestWritesPointer ==
  [][\A r \in Stepped :
       ~(r.tool = TestTool /\ r.result = "ok") => UNCHANGED <<currentClient, mcpClient>>]_vars

C11_Witness ==
  /\ lastResult.surface = "sse"
  /\ lastResult.tool = TestTool
  /\ lastResult.sentLogin
  /\ lastResult.result = "testFailed"
  /\ currentClient # 0
  /\ currentClient # lastResult.client

\* C12 as stated: every tool call returns a tool result, and a failure with
\* message M on tool N, whatever the tool, is returned with isError true and the
\* text "Error executing N: M".
C12_EveryFailureIsErrorExecuting ==
  lastResult.surface \in {"sse", "exec"} =>
    /\ lastResult.text # NoText
    /\ lastResult.failure # NoFailure =>
         /\ lastResult.isError
         /\ lastResult.text.form = "Error executing"
         /\ lastResult.text.name = lastResult.tool
         /\ lastResult.text.message = lastResult.failure

\* C12 amended: every tool call returns a tool result; a failure with message M
\* on a data tool N is returned with isError true and the text
\* "Error executing N: M"; a failure with message M of a connection test is
\* returned with isError true and the test result {success: false, message: M}.
C12_FailureReturnedAsToolResult ==
  lastResult.surface \in {"sse", "exec"} =>
    /\ lastResult.text # NoText
    /\ (lastResult.failure # NoFailure /\ lastResult.tool # TestTool) =>
         /\ lastResult.isError
         /\ lastResult.text.form = "Error executing"
         /\ lastResult.text.name = lastResult.tool
         /\ lastResult.text.message = lastResult.failure
    /\ (lastResult.failure # NoFailure /\ lastResult.tool = TestTool) =>
         /\ lastResult.isError
         /\ lastResult.text.form = "test failed"
         /\ lastResult.text.message = lastResult.failure

C12_Witness ==
  /\ lastResult.surface = "sse"
  /\ lastResult.tool = "query_creatio_accounts"
  /\ lastResult.sentData
  /\ lastResult.failure.kind = "Creatio returned an error page"
  /\ lastResult.text.form = "Error executing"

\* C13: a call of a name outside the catalogue returns at once, in both
\* dispatchers, with isError true and the one text "Unknown tool: <name>"; it
\* sends nothing upstream, constructs no client and leaves both pointers as
\* they were.
C13_UnknownToolRejected ==
  [][\A r \in Stepped :
       r.tool \notin ToolNames =>
         /\ r.pc = "done"
         /\ r.isError
         /\ r.text.form = "Unknown tool"
         /\ r.text.name = r.tool
         /\ r.failure = NoFailure
         /\ ~r.sentLogin
         /\ ~r.sentData
         /\ UNCHANGED <<clients, currentClient, mcpClient>>]_vars

C13_Witness ==
  /\ lastResult.surface = "exec"
  /\ lastResult.tool = BogusTool
  /\ lastResult.result = "unknownTool"
  /\ currentClient # 0

\* C14: the answer to a posted message is 5xx only when the message was handed
\* to a registered transport and started no call; a message that starts a call
\* is answered 202, no later step of the call changes that answer, and every
\* upstream fault of the call (failed login, non-success response, HTML page,
\* malformed body) ends it with a tool result whose isError is true.
C14_UpstreamFaultIsToolResult ==
  [][/\ \A r \in Stepped :
          r.conn # 0 =>
            /\ r.id = nextTask + 1 => (lastPost'.id = r.id /\ lastPost'.status = 202)
            /\ r.id <= nextTask => lastPost' = lastPost
            /\ r.failure # NoFailure => (r.pc = "done" /\ r.isError /\ r.text # NoText)
     /\ (lastPost'.id # lastPost.id /\ lastPost'.status >= 500) =>
          /\ lastPost'.status = 500
          /\ lastPost'.sessionId # <<>>
          /\ lastPost'.sessionId[1] \in DOMAIN activeTransports
          /\ UNCHANGED <<tasks, lastResult>>]_vars

C14_Witness ==
  /\ lastResult.conn # 0
  /\ lastResult.sentData
  /\ lastResult.failure.kind = "Creatio returned an error page"
  /\ lastResult.isError
  /\ lastPost.id = lastResult.id
  /\ lastPost.status = 202

\* C15: a query response with a success status and an HTML content type is
\* classified as unexpected content type, whatever its body, and the body is
\* not parsed as JSON.
C15_HtmlSuccessNotParsed ==
  (/\ lastResult.tool = "query_creatio_accounts"
   /\ lastResult.resp.status \in 200..299
   /\ lastResult.resp.html)
    => /\ lastResult.failure.kind = "Creatio returned HTML instead of JSON"
       /\ lastResult.value = "none"
       /\ ~lastResult.parsed

C15_Witness ==
  /\ lastResult.tool = "query_creatio_accounts"
  /\ lastResult.resp = [status |-> 200, html |-> TRUE, body |-> "list"]
  /\ lastResult.failure.kind = "Creatio returned HTML instead of JSON"

\* C16: queryAccounts classifies every response into one outcome, in this
\* priority: non-success and HTML gives the error-page error naming the page
\* title with the permission hint; non-success and not HTML gives the request
\* failure with status and body; success and HTML gives unexpected content
\* type; a body that is not JSON gives malformed response; any other body
\* gives the list under its value field, the empty list when the field is
\* absent, never null.
C16_QueryClassification ==
  (lastResult.tool = "query_creatio_accounts" /\ lastResult.resp # NoResp) =>
    LET resp == lastResult.resp
        f    == lastResult.failure
        success == resp.status \in 200..299 IN
    CASE ~success /\ resp.html ->
           /\ f.kind = "Creatio returned an error page"
           /\ f.op = "CanUseODataService"
           /\ resp.body = "htmlTitled" => f.detail = "title"
      [] ~success /\ ~resp.html ->
           /\ f.kind = "Request failed"
           /\ f.status = resp.status
           /\ f.detail = resp.body
      [] success /\ resp.html ->
           f.kind = "Creatio returned HTML instead of JSON"
      [] success /\ ~resp.html /\ resp.body \in {"garbage", "htmlTitled", "htmlUntitled"} ->
           f.kind = "Invalid response from Creatio"
      [] OTHER ->
           /\ lastResult.value \in {"list", "empty"}
           /\ resp.body = "noValue" => lastResult.value = "empty"

\* C17: an upstream 404 on the single-record GET is the normal outcome "not
\* found": getAccountById returns without failing, and the result of
\* get_creatio_account delivered to the tool caller is not marked as an error.
C17_NotFoundIsNotAnError ==
  (lastResult.tool = "get_creatio_account" /\ lastResult.resp.status = 404) =>
    /\ lastResult.failure = NoFailure
    /\ lastResult.value = "null"
    /\ lastResult.surface \in {"sse", "exec"} => ~lastResult.isError

\* C18: deleteAccount returns for status 204 and for every other 2xx status,
\* and for every other status throws the request failure that carries the
\* status and the body.
C18_DeleteOutcome ==
  (lastResult.tool = "delete_creatio_account" /\ lastResult.resp # NoResp) =>
    IF lastResult.resp.status \in 200..299
      THEN /\ lastResult.failure = NoFailure
           /\ lastResult.value = "void"
           /\ ~lastResult.isError
      ELSE /\ lastResult.failure.kind = "Request failed"
           /\ lastResult.failure.op = "Delete account"
           /\ lastResult.failure.status = lastResult.resp.status
           /\ lastResult.failure.detail = lastResult.resp.body
           /\ lastResult.isError

C18_Witness ==
  /\ lastResult.tool = "delete_creatio_account"
  /\ lastResult.resp.status = 200
  /\ lastResult.result = "ok"

\* C19 as stated: a data operation finds its session valid, and sends no login,
\* unless the client holds no session or the expiry of the session is before
\* now; at now = expiresAt the session is still valid.
C19_ValidAtExpiry ==
  \A r \in Invocations :
    r.clock # "none" => (r.sentLogin <=> r.clock \in {"no session", "after"})

\* C19 amended: a data operation finds its session valid, and sends no login,
\* exactly when the client holds a session and now is before its expiry; at
\* now = expiresAt, after it, and with no session, it logs in.
C19_ValidBeforeExpiry ==
  \A r \in Invocations :
    r.clock # "none" => (r.sentLogin <=> r.clock \in {"no session", "at", "after"})

C19_Witness ==
  /\ lastResult.tool \in DataTools
  /\ lastResult.clock = "at"
  /\ lastResult.sentLogin
  /\ lastResult.sentData

\* the data operations and what they sent, in one state
DataOpsAuthenticated ==
  \A r \in Invocations :
    r.tool \in DataTools =>
      /\ r.clock \in {"no session", "at", "after"} => r.sentLogin
      /\ r.failure.op = "authenticate" => ~r.sentData
      /\ r.sentData =>
           /\ r.clock # "none"
           /\ r.creds # NoCreds
           /\ r.sentLogin => (r.creds.cookies.login = r.id /\ r.creds.csrfToken.login = r.id)
           /\ ~r.sentLogin => r.clock = "before"

\* C20: every data operation runs ensureAuthenticated before it sends its data
\* request: with no session or an expired one it logs in first, the data
\* request carries the cookies and token of the session that login produced,
\* or of the session it found valid when it started, and when the login fails
\* no data request is sent.
C20_AuthenticatedBeforeData ==
  /\ []DataOpsAuthenticated
  /\ [][\A r \in Stepped :
          (r.id = nextTask + 1 /\ r.sentData) =>
            /\ isSessionValid(r.client)
            /\ r.creds.cookies = clients[r.client].session.cookies
            /\ r.creds.csrfToken = clients[r.client].session.csrfToken]_vars

C20_Witness ==
  /\ lastResult.tool \in DataTools
  /\ lastResult.clock = "after"
  /\ lastResult.sentLogin
  /\ lastResult.sentData
  /\ lastResult.creds.cookies.login = lastResult.id
  /\ lastResult.creds.csrfToken.login = lastResult.id
  /\ lastResult.result = "ok"

\* the invocations a step starts
Started == {r \in Invocations' : r.id = nextTask + 1 /\ nextTask' = nextTask + 1}

\* the logins a step completes with success: their session is installed
Succeeded ==
  {t \in DOMAIN tasks :
     /\ tasks[t].pc = "login"
     /\ t \notin DOMAIN tasks' \/ tasks'[t].pc # "login"
     /\ clients'[tasks[t].client].session.expirySetBy = t}

\* a connection test or connect that reported success left a session
SuccessLeftSession ==
  (lastResult.tool = TestTool /\ lastResult.result = "ok")
    => /\ lastResult.sentLogin
       /\ ~lastResult.isError
       /\ clients[lastResult.client].session.has

\* C21: a login answered with a success status and Code 0 creates a session and
\* reports success whatever cookies it extracted, also none and no token; while
\* now is before the expiry of that session a data operation sends its data
\* request with the cookies and token of the session, empty or not, and sends
\* no login.
C21_EmptyCredentialsSessionIsValid ==
  /\ []SuccessLeftSession
  /\ [][/\ \A t \in Succeeded :
            /\ clients'[tasks[t].client].session.has
            /\ tasks[t].tool = TestTool =>
                  (lastResult'.id = t /\ lastResult'.result = "ok" /\ ~lastResult'.isError)
            /\ tasks[t].tool \in DataTools =>
                  (tasks'[t].pc = "fetch" /\ tasks'[t].sentData)
        /\ \A r \in Started :
            (r.tool \in DataTools /\ r.clock = "before") =>
              /\ ~r.sentLogin
              /\ r.sentData
              /\ r.creds = getHeaders(r, clients)]_vars

C21_Witness ==
  /\ lastResult.tool \in DataTools
  /\ lastResult.clock = "before"
  /\ ~lastResult.sentLogin
  /\ lastResult.sentData
  /\ lastResult.creds.cookies.text = <<>>
  /\ lastResult.creds.csrfToken.text = <<>>
  /\ clients[lastResult.client].session.has

\* the headers of a list that carry a cookie of one of the four known names
\* (a header carries the cookie name=value: the text before its first "=" and
\* the text from there to its first ";", both trimmed)
RECURSIVE KnownPairs(_)
KnownPairs(headers) ==
  IF headers = <<>> THEN <<>>
  ELSE LET m == CookieMatch(Head(headers)) IN
       (IF m.matches /\ m.name \in KnownCookies
          THEN << m.name \o <<"=">> \o m.value >> ELSE <<>>)
       \o KnownPairs(Tail(headers))

\* the values of the BPMCSRF cookies among the headers
BpmcsrfValues(headers) ==
  {CookieMatch(headers[i]).value :
     i \in {j \in 1..Len(headers) : /\ CookieMatch(headers[j]).matches
                                     /\ CookieMatch(headers[j]).name = <<"BPMCSRF">>}}

\* C22: after a successful login the cookie string of the session is the pairs
\* name=value of exactly the headers with one of the four known names, in the
\* order of the headers, and the token is the value of the BPMCSRF cookie
\* (no token when no header carries that cookie).
C22_KnownCookiesAndToken ==
  \A r \in Invocations :
    (r.tool = TestTool /\ r.result = "ok"
       /\ clients[r.client].session.expirySetBy = r.id)
      => LET session == clients[r.client].session IN
         /\ session.cookies.text = Join(KnownPairs(r.headers))
         /\ IF BpmcsrfValues(r.headers) = {}
              THEN session.csrfToken.text = <<>>
              ELSE session.csrfToken.text \in BpmcsrfValues(r.headers)

\* what a catalogue lists under a name
Listed(catalogue, name) == {tool \in catalogue : tool.name = name}

\* C23: the three tool catalogues never diverge in name or shape: whatever tool
\* a call names, each catalogue lists it as the others do, with the same
\* parameter names, types and required flags, or none lists it.
C23_CataloguesAgree ==
  \A r \in Invocations :
    /\ Listed(ListTools, r.tool) = Listed(MCP_TOOLS, r.tool)
    /\ Listed(MCP_TOOLS, r.tool) = Listed(mcpTools, r.tool)

\* C24: no create request reaches upstream without a non-empty Name: on every
\* surface a create whose name is missing or empty is rejected before
\* createAccount sends its POST.
C24_CreateNeedsName ==
  \A r \in Invocations :
    (r.tool = "create_creatio_account" /\ r.args.name # "given")
      => ~r.sentData

\* C25: the $top of every query that reaches upstream is between 1 and 100, and
\* it is 25 when the caller gave no top.
C25_TopWithinRange ==
  \A r \in Invocations :
    (r.tool = "query_creatio_accounts" /\ r.sentData)
      => /\ r.top >= 1 /\ r.top <= 100
         /\ r.args.top = 0 => r.top = 25

\* C26: the session of every client is absent or a complete triple whose cookie
\* string, token and expiry were produced by one and the same successful
\* login, also while other logins of that client are in flight.
C26_SessionFromOneLogin ==
  \A c \in DOMAIN clients :
    LET session == clients[c].session IN
    IF session.has
      THEN /\ session.expirySetBy # 0
           /\ session.cookies.login = session.expirySetBy
           /\ session.csrfToken.login = session.expirySetBy
      ELSE session = NullSession

\* a second login of a client has replaced the session of the first while
\* none or another is in flight
C26_Witness ==
  \E c \in DOMAIN clients :
    /\ clients[c].session.has
    /\ clients[c].session.expirySetBy = 2
    /\ lastResult.id = 1 /\ lastResult.client = c /\ lastResult.result = "ok"

\* C27: the expiry of a session is fixed when its login completes, at that
\* instant plus 30 minutes: the session of a client changes only in the step
\* in which a login of that client succeeds (no data operation, successful or
\* failed, and no failed login changes it or its expiry), and the expiry of
\* the replacing session is not before that of the replaced one.
C27_ExpiryFixedAtLogin ==
  [][\A c \in DOMAIN clients :
       clients'[c].session # clients[c].session =>
         \E t \in LoginsInFlight(c) \cap Succeeded :
           /\ clients'[c].session.has
           /\ clients'[c].session.expirySetBy = t
           /\ clients'[c].session.expiresAt = now + sessionTimeout
           /\ clients'[c].session.expiresAt >= clients[c].session.expiresAt]_vars

\* a data operation has completed on a session that expired meanwhile
C27_Witness ==
  /\ lastResult.tool \in DataTools
  /\ lastResult.sentData
  /\ ~lastResult.sentLogin
  /\ lastResult.result = "ok"
  /\ clients[lastResult.client].session.has
  /\ now >= clients[lastResult.client].session.expiresAt

\* no data operation has thrown 'Not authenticated'
NeverNotAuthenticated ==
  \A r \in Invocations : r.failure # NotAuthenticated

\* C29: a client that holds a session never returns to none (a session is
\* replaced, never cleared), and no data operation reaches getHeaders without
\* a session: 'Not authenticated' is thrown in no interleaving.
C29_SessionNeverCleared ==
  /\ []NeverNotAuthenticated
  /\ [][\A c \in DOMAIN clients :
          clients[c].session.has => clients'[c].session.has]_vars

\* a login has failed on a client that holds a session
C29_Witness ==
  /\ lastResult.failure.op = "authenticate"
  /\ lastResult.sentLogin
  /\ clients[lastResult.client].session.has

\* the connections that are open and whose client has received handle h as the
\* first event of the stream
OpenWithHandle(h) ==
  {c \in DOMAIN conns :
     /\ conns[c].open
     /\ conns[c].stream # <<>>
     /\ Head(conns[c].stream).type = "sessionId"
     /\ Head(conns[c].stream).sessionId = <<h>>}

\* the handle a connection has emitted is registered for it while it is open
EmittedIsRegistered ==
  \A c \in DOMAIN conns :
    /\ conns[c].stream # <<>>
    /\ Head(conns[c].stream).type = "sessionId"
    /\ Head(conns[c].stream).sessionId = <<conns[c].sessionId>>
    /\ conns[c].open =>
         /\ conns[c].sessionId \in DOMAIN activeTransports
         /\ activeTransports[conns[c].sessionId] = c

\* C28: the handle of a connection is in the registry when it is emitted as
\* the first event of the stream, so a message posted with a handle its client
\* has received is not answered 404 while that connection is open: after an
\* answer 404 no connection that emitted the handle is open (a connection that
\* is open now was open when the message was posted).
C28_ReceivedHandleIsRegistered ==
  /\ EmittedIsRegistered
  /\ (lastPost.sessionId # <<>> /\ lastPost.status = 404)
       => OpenWithHandle(lastPost.sessionId[1]) = {}

\* a message posted with the handle of an open connection that is still
\* connecting: answered, not with 404
C28_Witness ==
  /\ lastPost.sessionId # <<>>
  /\ lastPost.status = 500
  /\ \E c \in OpenWithHandle(lastPost.sessionId[1]) : conns[c].pc = "connecting"

\* the catalogue of the dispatcher of a surface
CatalogueOf(surface) == IF surface = "sse" THEN ListTools ELSE MCP_TOOLS

\* C30: the tool names a dispatcher handles are the names its catalogue lists:
\* a call of the SSE handler or of MCPServer.executeTool is answered
\* "Unknown tool" exactly when its name is outside the catalogue, and a call of
\* each of the six listed tools is routed to its tool function.
C30_DispatchMatchesCatalogue ==
  \A r \in Invocations :
    r.surface \in {"sse", "exec"} =>
      /\ r.result = "unknownTool" <=> r.tool \notin NamesOf(CatalogueOf(r.surface))
      /\ r.text.form = "Unknown tool" <=> r.tool \notin NamesOf(CatalogueOf(r.surface))
      /\ r.tool \notin NamesOf(CatalogueOf(r.surface)) =>
           (r.pc = "done" /\ r.isError /\ ~r.sentLogin /\ ~r.sentData)

\* a listed tool has been routed by the dispatcher of POST /api/mcp/execute
\* and has run to its answer
C30_Witness ==
  /\ lastResult.surface = "exec"
  /\ lastResult.tool = "delete_creatio_account"
  /\ lastResult.tool \in NamesOf(MCP_TOOLS)
  /\ lastResult.sentData
  /\ lastResult.result = "ok"

====
